---- MODULE Spec2Model ----
(***************************************************************************)
(* Model of main.py, the FastAPI proxy in front of the ARC and IRRMS       *)
(* telemetry services.                                                     *)
(*                                                                         *)
(* Conventions.  A Python Optional[T] is a sequence of length at most one: *)
(* <<>> is None and <<v>> is the value v.  Strings that the code changes   *)
(* character by character (shed_name.upper(), method.upper()) are          *)
(* sequences of one-character strings; strings that are only compared or   *)
(* concatenated are TLA+ strings.  One inbound request is handled at a     *)
(* time in Spec: the handler's first step runs up to the outbound call,    *)
(* HttpAttempt is one attempt of that call inside the adapter, and the     *)
(* handler's second step builds the response sent to the caller.  In       *)
(* SpecConc two requests are in flight: pc .. now are the variables of     *)
(* the thread that is running and `parked` holds those of the other one.   *)
(***************************************************************************)
EXTENDS Integers, Sequences, FiniteSets, TLC

VARIABLES
    PROXY_SECRET,   \* main.py:21
    IRRMS_KEYS,     \* main.py:34-39, shed code -> Optional key
    pc,             \* "idle", "sending", "returned" or "done"
    req,            \* the inbound request being handled
    loginStub,      \* status the IRRMS login endpoint answers a login with
    calls,          \* outbound calls issued while handling req, in order
    retries,        \* the Retry object of the call in flight
    result,         \* what the outbound call gave back to the handler
    resp,           \* the response sent to the caller
    now,            \* Optional reading of the clock taken by irrms_fetch
    cookies,        \* session.cookies: host -> Optional cookie
    parked          \* pc .. now of the other request in flight

vars == <<PROXY_SECRET, IRRMS_KEYS, pc, req, loginStub, calls, retries,
          result, resp, now, cookies, parked>>

-----------------------------------------------------------------------------
(* Bounds *)

MaxPage == 3

-----------------------------------------------------------------------------
(* Python helpers *)

None == <<>>

Some(v) == <<v>>

\* truth value of an Optional[str]: None and "" are falsy
TruthyStr(o) == o # None /\ o[1] # ""

\* truth value of an Optional[int]: None and 0 are falsy
TruthyInt(o) == o # None /\ o[1] # 0

UpperChar(c) ==
    CASE c = "a" -> "A" [] c = "b" -> "B" [] c = "c" -> "C"
      [] c = "e" -> "E" [] c = "g" -> "G" [] c = "k" -> "K"
      [] c = "o" -> "O" [] c = "p" -> "P" [] c = "s" -> "S"
      [] c = "t" -> "T" [] c = "u" -> "U" [] c = "x" -> "X"
      [] OTHER -> c

\* str.upper()
Upper(s) == [i \in DOMAIN s |-> UpperChar(s[i])]

Digit(d) ==
    CASE d = 0 -> "0" [] d = 1 -> "1" [] d = 2 -> "2" [] d = 3 -> "3"
      [] d = 4 -> "4" [] d = 5 -> "5" [] d = 6 -> "6" [] d = 7 -> "7"
      [] d = 8 -> "8" [] d = 9 -> "9"

RECURSIVE NatToStr(_)
NatToStr(n) == IF n < 10 THEN Digit(n) ELSE NatToStr(n \div 10) \o Digit(n % 10)

\* str(int), as the f-string formats an int
IntToStr(n) == IF n < 0 THEN "-" \o NatToStr(0 - n) ELSE NatToStr(n)

Min(a, b) == IF a < b THEN a ELSE b

-----------------------------------------------------------------------------
(* datetime: a reading of the clock is a record of year .. second (the     *)
(* microseconds never reach a formatted string); arithmetic goes through   *)
(* the proleptic Gregorian ordinal as datetime.__add__ does; a formatted   *)
(* date is a sequence of characters.                                       *)

datetime(y, mo, d, h, mi, s) ==
    [year |-> y, month |-> mo, day |-> d, hour |-> h, minute |-> mi,
     second |-> s]

is_leap(year) == year % 4 = 0 /\ (year % 100 # 0 \/ year % 400 = 0)

days_in_month(year, month) ==
    IF month = 2 THEN (IF is_leap(year) THEN 29 ELSE 28)
    ELSE IF month \in {4, 6, 9, 11} THEN 30 ELSE 31

\* number of days before January 1st of year
days_before_year(year) ==
    LET y == year - 1
    IN y * 365 + y \div 4 - y \div 100 + y \div 400

RECURSIVE days_before_month(_, _)
\* number of days in year preceding the first day of month
days_before_month(year, month) ==
    IF month = 1 THEN 0
    ELSE days_before_month(year, month - 1) + days_in_month(year, month - 1)

\* toordinal(): 01-Jan-0001 is day 1
ymd2ord(year, month, day) ==
    days_before_year(year) + days_before_month(year, month) + day

\* date.fromordinal(n), by the 400/100/4/1-year cycles
ord2ymd(ordinal) ==
    LET n0 == ordinal - 1
        n400 == n0 \div 146097
        r400 == n0 % 146097
        n100 == r400 \div 36524
        r100 == r400 % 36524
        n4 == r100 \div 1461
        r4 == r100 % 1461
        n1 == r4 \div 365
        n == r4 % 365
        year == n400 * 400 + 1 + n100 * 100 + n4 * 4 + n1
        leapyear == n1 = 3 /\ (n4 # 24 \/ n100 = 3)
        guess == (n + 50) \div 32
        before(m) == days_before_month(2001, m)
                       + (IF m > 2 /\ leapyear THEN 1 ELSE 0)
        month == IF before(guess) > n THEN guess - 1 ELSE guess
    IN IF n1 = 4 \/ n100 = 4
       THEN [year |-> year - 1, month |-> 12, day |-> 31]
       ELSE [year |-> year, month |-> month, day |-> n - before(month) + 1]

\* dt + timedelta(days=days, minutes=minutes)
datetime_add(dt, days, minutes) ==
    LET secs == dt.hour * 3600 + dt.minute * 60 + dt.second + minutes * 60
        carry == IF secs < 0 THEN 0 - 1 ELSE IF secs >= 86400 THEN 1 ELSE 0
        rem == secs - carry * 86400
        date == ord2ymd(ymd2ord(dt.year, dt.month, dt.day) + days + carry)
    IN datetime(date.year, date.month, date.day,
                rem \div 3600, (rem % 3600) \div 60, rem % 60)

\* two digits, zero-padded
Pad2(n) == <<Digit(n \div 10), Digit(n % 10)>>

RECURSIVE NatDigits(_)
NatDigits(n) ==
    IF n < 10 THEN <<Digit(n)>> ELSE Append(NatDigits(n \div 10), Digit(n % 10))

\* dt.strftime("%d-%m-%Y")
strftime_date(dt) ==
    Pad2(dt.day) \o <<"-">> \o Pad2(dt.month) \o <<"-">> \o NatDigits(dt.year)

\* dt.strftime("%d-%m-%Y %H:%M:%S")
strftime_stamp(dt) ==
    strftime_date(dt) \o <<" ">> \o Pad2(dt.hour) \o <<":">>
      \o Pad2(dt.minute) \o <<":">> \o Pad2(dt.second)

\* what datetime.utcnow() reads in Spec
Clock == {datetime(2026, 11, 6, 10, 31, 45)}

ClockYears == {2024, 2025, 2100}

ClockDays == {1, 28, 29, 30, 31}

ClockTimes ==
    {<<0, 0, 0>>, <<0, 14, 59>>, <<0, 15, 0>>, <<12, 0, 30>>,
     <<23, 54, 59>>, <<23, 55, 0>>, <<23, 59, 59>>}

\* readings of the clock around the ends of days, months and years
ClockEdges ==
    { dt \in { datetime(y, mo, d, t[1], t[2], t[3]) :
                 y \in ClockYears, mo \in 1..12, d \in ClockDays,
                 t \in ClockTimes } :
        dt.day <= days_in_month(dt.year, dt.month) }

-----------------------------------------------------------------------------
(* Configuration *)

ARC_LIVE_URL == "http://49.249.49.218:5000/api/DefTableLocodetails"

IRRMS_LOGIN_URL == "https://irrms-service.locomatrice.com/RMS/save/session/management/login"

IRRMS_DATA_URL == "https://irrms-service.locomatrice.com/RMS/get/realTimeData/getAllLocosRealtimeData"

IPIFY_URL == "https://api.ipify.org?format=json"

TEST_ARC_URL == "http://49.249.49.218:5000"

TEST_IRRMS_URL == "https://irrms-service.locomatrice.com"

TATA == <<"T", "A", "T", "A">>
BKSC == <<"B", "K", "S", "C">>
ROU == <<"R", "O", "U">>
BNDM == <<"B", "N", "D", "M">>

ShedCodes == {TATA, BKSC, ROU, BNDM}

\* os.environ.get("PROXY_SECRET", "changeme")
ProxySecrets == {"changeme", "s3cret"}

\* os.environ.get(name) of the four key variables: unset, empty or a key
KeyTables ==
    { [s \in ShedCodes |->
         CASE s = TATA -> t
           [] s = BKSC -> Some("key-BKSC")
           [] s = ROU -> Some("key-ROU")
           [] OTHER -> None] :
      t \in {None, Some(""), Some("key-TATA")} }

IRRMS_HOST == "irrms-service.locomatrice.com"

ARC_HOST == "49.249.49.218"

IPIFY_HOST == "api.ipify.org"

PROBE_HOST == "probe.example"

Hosts == {IRRMS_HOST, ARC_HOST, IPIFY_HOST, PROBE_HOST}

\* the host a URL names, under which the session files its cookies
Host(url) ==
    CASE url \in {IRRMS_DATA_URL, IRRMS_LOGIN_URL, TEST_IRRMS_URL} -> IRRMS_HOST
      [] url = IPIFY_URL -> IPIFY_HOST
      [] url = "http://probe.example/health" -> PROBE_HOST
      [] OTHER -> ARC_HOST

\* dict.get(key): None when the key is absent
DictGet(d, k) == IF k \in DOMAIN d THEN d[k] ELSE None

-----------------------------------------------------------------------------
(* Inbound requests *)

HOSTNAME == "proxy-host"

\* values of the X-Proxy-Secret header a caller may send; None is "absent"
Headers == {None, Some(""), Some("changeme"), Some("s3cret"),
            Some("Bearer changeme"), Some("Bearer s3cret")}

\* a JSON body field: left out, null, or a value
Missing == <<"missing">>

Null == <<"null">>

Val(v) == <<"val", v>>

\* pydantic: a field left out takes the default, null is None
Field(raw, default) ==
    IF raw = Missing THEN default
    ELSE IF raw = Null THEN None
    ELSE Some(raw[2])

ShedNames == {TATA, <<"t", "a", "t", "a">>, <<"T", "a", "t", "a">>,
              <<"b", "k", "s", "c">>, <<"X", "X">>}

RawKeys == {Missing, Null, Val(""), Val("key-override")}

RawShedIds == {Missing, Val(7)}

RawPages == {Missing, Null} \cup {Val(n) : n \in (0 - MaxPage)..MaxPage}

GET == <<"G", "E", "T">>
POST == <<"P", "O", "S", "T">>

RawMethods == {Missing, Val(<<"g", "e", "t">>), Val(POST), Val(<<"p", "u", "t">>)}

ProbeUrls == {"http://probe.example/health", ARC_LIVE_URL}

\* class IRRMSFetchRequest
IRRMSFetchRequest(shed_name, shedId, authenticateKey) ==
    [shed_name |-> shed_name,
     shedId |-> Field(shedId, Some(0)),
     authenticateKey |-> Field(authenticateKey, None)]

\* class ARCFetchRequest
ARCFetchRequest(page) == [page |-> Field(page, Some(1))]

NoBody == <<>>

\* an inbound request: `raw` is what the caller sent, `body` what the
\* handler is given after validation
Request(endpoint, header, raw, body) ==
    [endpoint |-> endpoint, x_proxy_secret |-> header, raw |-> raw,
     body |-> body]

-----------------------------------------------------------------------------
(* Responses to the caller *)

NoResp == [http |-> 0, body |-> <<>>]

\* raise HTTPException(status_code, detail)
HTTPException(status_code, detail) ==
    [http |-> status_code, body |-> [detail |-> detail]]

\* a handler returning a dict: FastAPI answers 200 with the dict as JSON
Returned(dict) == [http |-> 200, body |-> dict]

\* a slip: the 403 detail tells the caller the secret it should have sent
check_auth_LeakSecret(secret_header) ==
    IF secret_header = None
    THEN HTTPException(401, "Missing X-Proxy-Secret")
    ELSE IF secret_header[1] # PROXY_SECRET
         THEN HTTPException(403, "Invalid X-Proxy-Secret, expected "
                                    \o PROXY_SECRET)
         ELSE NoResp

\* check_auth: the HTTPException it raises, or NoResp when it returns
check_auth(secret_header) ==
    IF secret_header = None
    THEN HTTPException(401, "Missing X-Proxy-Secret")
    ELSE IF secret_header[1] # PROXY_SECRET
         THEN HTTPException(403, "Invalid X-Proxy-Secret")
         ELSE NoResp

get_irrms_key_for_shed(shed) == DictGet(IRRMS_KEYS, Upper(shed))

\* Python's `a or b` on Optional[str]
OrStr(a, b) == IF TruthyStr(a) THEN a ELSE b

\* Python's `a or b` on Optional[int] with an int on the right
OrInt(a, b) == IF TruthyInt(a) THEN a[1] ELSE b

-----------------------------------------------------------------------------
(* The HTTP client: requests.Session with the Retry policy of main.py:44-51 *)

RetryTotal == 2

\* a slip: total=3
SessionRetry_Total3 ==
    [total |-> 3, read |-> TRUE,
     status_forcelist |-> {502, 503, 504},
     allowed_methods |-> {GET, POST}]

\* Retry(total=2, backoff_factor=0.5, status_forcelist=[502, 503, 504],
\*       allowed_methods=["GET", "POST"]); read errors count against total
SessionRetry ==
    [total |-> RetryTotal, read |-> TRUE,
     status_forcelist |-> {502, 503, 504},
     allowed_methods |-> {GET, POST}]

\* the adapter behind a bare requests.get: Retry(0, read=False)
PlainRetry ==
    [total |-> 0, read |-> FALSE,
     status_forcelist |-> {},
     allowed_methods |-> {GET, <<"P", "U", "T">>}]

\* statuses the Retry class retries when the answer carries Retry-After
RetryAfterStatusCodes == {413, 429, 503}

\* what one attempt of an outbound call can meet
Outcomes ==
    { [kind |-> "status", status |-> s, retry_after |-> FALSE] :
        s \in {200, 404, 502, 503, 504} }
    \cup { [kind |-> "status", status |-> 429, retry_after |-> TRUE] }
    \cup { [kind |-> "connect_error"], [kind |-> "read_error"] }

\* upstream response bodies: text of `len` characters named by `id`
Bodies ==
    { [id |-> "{\"locos\":[]}", isJson |-> TRUE, len |-> 12, ip |-> None],
      [id |-> "{\"ip\":\"198.51.100.7\"}", isJson |-> TRUE, len |-> 21,
       ip |-> Some("198.51.100.7")],
      [id |-> "hello", isJson |-> FALSE, len |-> 5, ip |-> None],
      [id |-> "<pre>...", isJson |-> FALSE, len |-> 1200, ip |-> None],
      [id |-> "<html>...", isJson |-> FALSE, len |-> 2500, ip |-> None] }

\* r.text
Text(body) == [id |-> body.id, len |-> body.len]

\* a slip: text[:n - 1]
Prefix_OffByOne(text, n) == [id |-> text.id, len |-> Min(text.len, n - 1)]

\* text[:n]
Prefix(text, n) == [id |-> text.id, len |-> Min(text.len, n)]

\* a slip: r.text where r.json() was meant
Json_Text(body) == Text(body)

\* r.json() of a body that parses
Json(body) == [parsed |-> body.id, ip |-> body.ip]

NoResult == [kind |-> "none"]

Response(status, body, retry_after) ==
    [kind |-> "response", status_code |-> status, body |-> body,
     headers |-> [RetryAfter |-> retry_after, SetCookie |-> None]]

Raised(cause) == [kind |-> "exception", cause |-> cause]

\* an outbound call as handed to the client
Call(via, method, url, headers, payload, timeout) ==
    [via |-> via, method |-> method, url |-> url, headers |-> headers,
     payload |-> payload, timeout |-> timeout, cookie |-> None,
     attempts |-> <<>>]

\* a slip: every error status taken for a transient one
is_retry_AnyError(r, method, status_code, has_retry_after) ==
    IF method \notin r.allowed_methods THEN FALSE
    ELSE IF status_code >= 400 THEN TRUE
    ELSE r.total # 0 /\ has_retry_after
         /\ status_code \in RetryAfterStatusCodes

\* Retry.is_retry(method, status_code, has_retry_after)
is_retry(r, method, status_code, has_retry_after) ==
    IF method \notin r.allowed_methods THEN FALSE
    ELSE IF status_code \in r.status_forcelist THEN TRUE
    ELSE r.total # 0 /\ has_retry_after
         /\ status_code \in RetryAfterStatusCodes

\* a slip: one attempt more than the budget before giving up
is_exhausted_OneMore(r) == r.total < 0 - 1

\* Retry.increment(...).is_exhausted()
is_exhausted(r) == r.total < 0

increment(r) == [r EXCEPT !.total = r.total - 1]

\* a slip: raise_on_status=False, the last answer of an exhausted call is
\* handed back as a response
AttemptResult_NoRaise(r, c, o, body) ==
    CASE o.kind = "connect_error" ->
           IF is_exhausted(increment(r)) THEN Raised("ConnectionError")
           ELSE [kind |-> "retry"]
      [] o.kind = "read_error" ->
           IF ~r.read \/ c.method \notin r.allowed_methods
           THEN Raised("ReadTimeout")
           ELSE IF is_exhausted(increment(r)) THEN Raised("ConnectionError")
           ELSE [kind |-> "retry"]
      [] OTHER ->
           IF is_retry(r, c.method, o.status, o.retry_after)
              /\ ~is_exhausted(increment(r))
           THEN [kind |-> "retry"]
           ELSE Response(o.status, body, o.retry_after)

\* the outcome `o` of one attempt of call `c` under Retry state `r`:
\* "retry" to attempt again, or the result handed to the handler
AttemptResult(r, c, o, body) ==
    CASE o.kind = "connect_error" ->
           IF is_exhausted(increment(r)) THEN Raised("ConnectionError")
           ELSE [kind |-> "retry"]
      [] o.kind = "read_error" ->
           IF ~r.read \/ c.method \notin r.allowed_methods
           THEN Raised("ReadTimeout")
           ELSE IF is_exhausted(increment(r)) THEN Raised("ConnectionError")
           ELSE [kind |-> "retry"]
      [] OTHER ->
           IF is_retry(r, c.method, o.status, o.retry_after)
           THEN IF is_exhausted(increment(r)) THEN Raised("RetryError")
                ELSE [kind |-> "retry"]
           ELSE Response(o.status, body, o.retry_after)

\* Set-Cookie headers an upstream may answer with; None is "no such header"
NoSetCookie == {None}

\* Session.send: the cookies of the response go into the session's jar
\* (a bare requests.get has a session of its own, thrown away afterwards)
ExtractCookies(jar, c, res) ==
    IF c.via = "session" /\ res.kind = "response"
       /\ res.headers.SetCookie # None
    THEN [jar EXCEPT ![Host(c.url)] = res.headers.SetCookie]
    ELSE jar

\* attempt of the call in flight that meets outcome `o`; a response that is
\* handed back has a body of B and a Set-Cookie header of SC
HttpAttemptStep(o, B, SC) ==
    LET n == Len(calls)
        c == calls[n]
        probe == AttemptResult(retries, c, o, CHOOSE b \in B : TRUE)
    IN /\ calls' = [calls EXCEPT ![n].attempts = Append(@, o)]
       /\ IF probe.kind = "retry"
          THEN /\ retries' = increment(retries)
               /\ UNCHANGED <<pc, result, cookies>>
          ELSE /\ \E body \in B, sc \in SC :
                    LET res == AttemptResult(retries, c, o, body)
                        got == IF res.kind = "response"
                               THEN [res EXCEPT !.headers.SetCookie = sc]
                               ELSE res
                    IN /\ result' = got
                       /\ cookies' = ExtractCookies(cookies, c, got)
               /\ pc' = "returned"
               /\ UNCHANGED retries
       /\ UNCHANGED <<PROXY_SECRET, IRRMS_KEYS, req, loginStub, resp, now, parked>>

\* one attempt of the call in flight (urlopen inside HTTPAdapter.send)
HttpAttempt ==
    /\ pc = "sending"
    /\ \E o \in Outcomes : HttpAttemptStep(o, Bodies, NoSetCookie)

-----------------------------------------------------------------------------
(* Handlers.  The first step of a handler runs from the arrival of the      *)
(* request to its outbound call or to the exception that ends it; the       *)
(* second step runs from the return of the outbound call to the response.   *)

LoginStatuses == {200, 401}

Ready == pc = "idle"

\* the handler ends here with `response`, having issued no outbound call
Finish(r, response) ==
    /\ req' = r
    /\ pc' = "done"
    /\ calls' = <<>>
    /\ retries' = SessionRetry
    /\ result' = NoResult
    /\ resp' = response

\* the handler hands `call` to an adapter whose Retry object is `retry`;
\* a call made through the session takes the jar's cookie for its host
Send(r, call, retry) ==
    /\ req' = r
    /\ pc' = "sending"
    /\ calls' = <<[call EXCEPT !.cookie = IF call.via = "session"
                                           THEN cookies[Host(call.url)]
                                           ELSE None]>>
    /\ retries' = retry
    /\ result' = NoResult
    /\ resp' = NoResp

\* the response leaves; the record of the call stays for inspection
Reply(response) ==
    /\ pc' = "done"
    /\ resp' = response
    /\ UNCHANGED <<PROXY_SECRET, IRRMS_KEYS, req, loginStub, calls, retries,
                   result, now, cookies, parked>>

\* a slip: the text fallback taken whatever the body
Envelope_AlwaysText(r) ==
    [status_code |-> r.status_code, text |-> Prefix(Text(r.body), 2000)]

\* the {status_code, json | text} dict of irrms_fetch and arc_fetch
Envelope(r) ==
    IF r.body.isJson
    THEN [status_code |-> r.status_code, json |-> Json(r.body)]
    ELSE [status_code |-> r.status_code, text |-> Prefix(Text(r.body), 2000)]

IrrmsHeaders(auth_key) ==
    [ContentType |-> "application/json; charset=UTF-8",
     Origin |-> "https://irrms.locomatrice.com",
     Referer |-> "https://irrms.locomatrice.com/",
     Accept |-> "application/json, text/plain, */*",
     Authorization |-> auth_key]

\* a slip: endDate without the day added
IrrmsPayload_SameDayEnd(shed_id, t) ==
    [locoId |-> 0, locoTypeId |-> 0, shedId |-> shed_id, vendorId |-> 0,
     startDate |-> strftime_date(t),
     endDate |-> strftime_date(t),
     actionMode |-> "temperatureventilation",
     fromDateTime |-> strftime_stamp(datetime_add(t, 0, 0 - 15)),
     toDateTime |-> strftime_stamp(datetime_add(t, 0, 5)),
     locoNo |-> "All", refId |-> "GetSearchData"]

\* payload, for the reading `t` of the clock
IrrmsPayload(shed_id, t) ==
    [locoId |-> 0, locoTypeId |-> 0, shedId |-> shed_id, vendorId |-> 0,
     startDate |-> strftime_date(t),
     endDate |-> strftime_date(datetime_add(t, 1, 0)),
     actionMode |-> "temperatureventilation",
     fromDateTime |-> strftime_stamp(datetime_add(t, 0, 0 - 15)),
     toDateTime |-> strftime_stamp(datetime_add(t, 0, 5)),
     locoNo |-> "All", refId |-> "GetSearchData"]

\* a slip: the operands of `or` swapped, the table before the override
resolve_key_TableFirst(body) ==
    OrStr(get_irrms_key_for_shed(body.shed_name), body.authenticateKey)

\* auth_key = body.authenticateKey or get_irrms_key_for_shed(shed)
resolve_key(body) ==
    OrStr(body.authenticateKey, get_irrms_key_for_shed(body.shed_name))

\* a slip: `if auth_key is None`
KeyMissing_IsNone(auth_key) == auth_key = None

\* if not auth_key
KeyMissing(auth_key) == ~TruthyStr(auth_key)

\* a slip: the credential looked up before the caller is authenticated
IrrmsFetchStep_KeyFirst(h, shed, sid, key, ls, t) ==
    LET body == IRRMSFetchRequest(shed, sid, key)
        raw == [shed_name |-> shed, shedId |-> sid, authenticateKey |-> key]
        r == Request("irrms_fetch", h, raw, body)
        shed_id == OrInt(body.shedId, 0)
        auth_key == resolve_key(body)
    IN /\ loginStub' = ls
       /\ IF KeyMissing(auth_key)
          THEN /\ Finish(r, HTTPException(400,
                                "No authenticateKey found for shed"))
               /\ now' = None
          ELSE IF check_auth(h) # NoResp
          THEN Finish(r, check_auth(h)) /\ now' = None
          ELSE /\ Send(r, Call("session", POST, IRRMS_DATA_URL,
                               IrrmsHeaders(auth_key[1]),
                               IrrmsPayload(shed_id, t), 20),
                       SessionRetry)
               /\ now' = Some(t)
       /\ UNCHANGED <<PROXY_SECRET, IRRMS_KEYS, cookies, parked>>

\* irrms_fetch, up to session.post, for one request, one answer `ls` of the
\* login endpoint and one reading `t` of the clock
IrrmsFetchStep(h, shed, sid, key, ls, t) ==
    LET body == IRRMSFetchRequest(shed, sid, key)
        raw == [shed_name |-> shed, shedId |-> sid, authenticateKey |-> key]
        r == Request("irrms_fetch", h, raw, body)
        shed_id == OrInt(body.shedId, 0)
        auth_key == resolve_key(body)
    IN /\ loginStub' = ls
       /\ IF check_auth(h) # NoResp
          THEN Finish(r, check_auth(h)) /\ now' = None
          ELSE IF KeyMissing(auth_key)
          THEN /\ Finish(r, HTTPException(400,
                                "No authenticateKey found for shed"))
               /\ now' = None
          ELSE /\ Send(r, Call("session", POST, IRRMS_DATA_URL,
                               IrrmsHeaders(auth_key[1]),
                               IrrmsPayload(shed_id, t), 20),
                       SessionRetry)
               /\ now' = Some(t)
       /\ UNCHANGED <<PROXY_SECRET, IRRMS_KEYS, cookies, parked>>

\* irrms_fetch, up to session.post
irrms_fetch ==
    /\ Ready
    /\ \E h \in Headers, shed \in ShedNames, sid \in RawShedIds,
          key \in RawKeys, ls \in LoginStatuses, t \in Clock :
         IrrmsFetchStep(h, shed, sid, key, ls, t)

\* irrms_fetch, from the return of session.post
irrms_return ==
    /\ pc = "returned"
    /\ req.endpoint = "irrms_fetch"
    /\ IF result.kind = "response"
       THEN Reply(Returned(Envelope(result)))
       ELSE Reply(HTTPException(500, "IRRMS request failed: " \o result.cause))

\* a slip: a zero-based page in the query string
ArcUrl_ZeroBased(page) == ARC_LIVE_URL \o "?page=" \o IntToStr(page - 1)

\* url = f"{ARC_LIVE_URL}?page={page}"
ArcUrl(page) == ARC_LIVE_URL \o "?page=" \o IntToStr(page)

\* arc_fetch, up to session.get, for one request
ArcFetchStep(h, p) ==
    LET body == ARCFetchRequest(p)
        r == Request("arc_fetch", h, [page |-> p], body)
        page == OrInt(body.page, 1)
    IN /\ IF check_auth(h) # NoResp THEN Finish(r, check_auth(h))
          ELSE Send(r, Call("session", GET, ArcUrl(page), <<>>, <<>>, 15),
                    SessionRetry)
       /\ UNCHANGED <<PROXY_SECRET, IRRMS_KEYS, loginStub, now, cookies, parked>>

\* arc_fetch, up to session.get
arc_fetch ==
    /\ Ready
    /\ \E h \in Headers, p \in RawPages : ArcFetchStep(h, p)

\* arc_fetch, from the return of session.get
arc_return ==
    /\ pc = "returned"
    /\ req.endpoint = "arc_fetch"
    /\ IF result.kind = "response"
       THEN Reply(Returned(Envelope(result)))
       ELSE Reply(HTTPException(500, "ARC request failed: " \o result.cause))

\* debug_ip, up to session.get
debug_ip ==
    /\ Ready
    /\ \E h \in Headers :
         LET r == Request("debug_ip", h, NoBody, NoBody)
         IN IF check_auth(h) # NoResp THEN Finish(r, check_auth(h))
            ELSE Send(r, Call("session", GET, IPIFY_URL, <<>>, <<>>, 5),
                      SessionRetry)
    /\ UNCHANGED <<PROXY_SECRET, IRRMS_KEYS, loginStub, now, cookies, parked>>

\* a slip: no `except`, a failed lookup fails the call
debug_ip_return_Propagate ==
    /\ pc = "returned"
    /\ req.endpoint = "debug_ip"
    /\ IF result.kind = "response" /\ result.body.isJson
       THEN Reply(Returned([hostname |-> HOSTNAME,
                            public_ip |-> Json(result.body).ip]))
       ELSE Reply(HTTPException(500, "Internal Server Error"))

\* debug_ip, from the return of session.get: .json().get("ip") or None
debug_ip_return ==
    /\ pc = "returned"
    /\ req.endpoint = "debug_ip"
    /\ LET public_ip == IF result.kind = "response" /\ result.body.isJson
                        THEN Json(result.body).ip
                        ELSE None
       IN Reply(Returned([hostname |-> HOSTNAME, public_ip |-> public_ip]))

\* debug_check, up to session.request
debug_check ==
    /\ Ready
    /\ \E h \in Headers, url \in ProbeUrls, m \in RawMethods :
         LET method == Field(m, Some(GET))[1]
             r == Request("debug_check", h, [url |-> url, method |-> m],
                          [url |-> url, method |-> method])
         IN IF check_auth(h) # NoResp THEN Finish(r, check_auth(h))
            ELSE Send(r, Call("session", Upper(method), url, <<>>, <<>>, 12),
                      SessionRetry)
    /\ UNCHANGED <<PROXY_SECRET, IRRMS_KEYS, loginStub, now, cookies, parked>>

\* debug_check, from the return of session.request
debug_check_return ==
    /\ pc = "returned"
    /\ req.endpoint = "debug_check"
    /\ IF result.kind = "response"
       THEN Reply(Returned([status_code |-> result.status_code,
                            snippet |-> Prefix(Text(result.body), 800),
                            headers |-> result.headers]))
       ELSE Reply(HTTPException(500, "Proxy failed: " \o result.cause))

\* test_arc, up to requests.get: the handler takes no header parameter and
\* makes no check_auth call, whatever header the caller sent
test_arc ==
    /\ Ready
    /\ \E h \in Headers :
         Send(Request("test_arc", h, NoBody, NoBody),
              Call("requests", GET, TEST_ARC_URL, <<>>, <<>>, 5), PlainRetry)
    /\ UNCHANGED <<PROXY_SECRET, IRRMS_KEYS, loginStub, now, cookies, parked>>

\* test_irrms, up to requests.get: as test_arc
test_irrms ==
    /\ Ready
    /\ \E h \in Headers :
         Send(Request("test_irrms", h, NoBody, NoBody),
              Call("requests", GET, TEST_IRRMS_URL, <<>>, <<>>, 5), PlainRetry)
    /\ UNCHANGED <<PROXY_SECRET, IRRMS_KEYS, loginStub, now, cookies, parked>>

\* test_arc and test_irrms, from the return of requests.get
test_return ==
    /\ pc = "returned"
    /\ req.endpoint \in {"test_arc", "test_irrms"}
    /\ IF result.kind = "response"
       THEN Reply(Returned([status |-> result.status_code,
                            body |-> Prefix(Text(result.body), 300)]))
       ELSE Reply(Returned([error |-> result.cause]))

\* the worker is free again and takes the next request
next_request ==
    /\ pc = "done"
    /\ pc' = "idle"
    /\ req' = Request("none", None, NoBody, NoBody)
    /\ loginStub' = 200
    /\ calls' = <<>>
    /\ retries' = SessionRetry
    /\ result' = NoResult
    /\ resp' = NoResp
    /\ now' = None
    /\ UNCHANGED <<PROXY_SECRET, IRRMS_KEYS, cookies, parked>>

-----------------------------------------------------------------------------

\* pc .. now of a thread that handles no request
IdleFrame ==
    [pc |-> "idle", req |-> Request("none", None, NoBody, NoBody),
     loginStub |-> 200, calls |-> <<>>, retries |-> SessionRetry,
     result |-> NoResult, resp |-> NoResp, now |-> None]

Init ==
    /\ PROXY_SECRET \in ProxySecrets
    /\ IRRMS_KEYS \in KeyTables
    /\ pc = "idle"
    /\ req = Request("none", None, NoBody, NoBody)
    /\ loginStub = 200
    /\ calls = <<>>
    /\ retries = SessionRetry
    /\ result = NoResult
    /\ resp = NoResp
    /\ now = None
    /\ cookies = [h \in Hosts |-> None]
    /\ parked = IdleFrame

Next ==
    \/ irrms_fetch
    \/ irrms_return
    \/ arc_fetch
    \/ arc_return
    \/ debug_ip
    \/ debug_ip_return
    \/ debug_check
    \/ debug_check_return
    \/ test_arc
    \/ test_irrms
    \/ test_return
    \/ HttpAttempt
    \/ next_request

Spec == Init /\ [][Next]_vars

\* every outbound call carries a timeout, so an attempt under way ends, and
\* a handler whose call has returned goes on to its return statement
Fairness ==
    /\ WF_vars(HttpAttempt)
    /\ WF_vars(irrms_return)
    /\ WF_vars(arc_return)
    /\ WF_vars(debug_ip_return)
    /\ WF_vars(debug_check_return)
    /\ WF_vars(test_return)

SpecLive == Init /\ [][Next]_vars /\ Fairness

-----------------------------------------------------------------------------
(* Two requests in flight.  The handlers are plain `def`s, which the       *)
(* framework runs on a pool of threads; all of them use the one module-    *)
(* level `session`.                                                        *)

\* pc .. now of the thread that is running
Running ==
    [pc |-> pc, req |-> req, loginStub |-> loginStub, calls |-> calls,
     retries |-> retries, result |-> result, resp |-> resp, now |-> now]

\* the scheduler takes the running thread off and puts the other one on
context_switch ==
    /\ parked' = Running
    /\ pc' = parked.pc
    /\ req' = parked.req
    /\ loginStub' = parked.loginStub
    /\ calls' = parked.calls
    /\ retries' = parked.retries
    /\ result' = parked.result
    /\ resp' = parked.resp
    /\ now' = parked.now
    /\ UNCHANGED <<PROXY_SECRET, IRRMS_KEYS, cookies>>

ConcSecret == "s3cret"

ConcKeys == CHOOSE k \in KeyTables : k[TATA] = Some("key-TATA")

ConcHeaders == {None, Some(ConcSecret)}

ConcSheds == {TATA, <<"b", "k", "s", "c">>}

ConcOutcomes ==
    { o \in Outcomes : o.kind = "status" /\ o.status \in {200, 503} }

ConcBodies == { b \in Bodies : b.len = 12 }

\* an upstream that keeps a server-side session answers with its cookie
SessionCookies == {None, Some("JSESSIONID=0A1B2C")}

conc_irrms_fetch ==
    /\ Ready
    /\ \E h \in ConcHeaders, shed \in ConcSheds :
         \E t \in Clock : IrrmsFetchStep(h, shed, Missing, Missing, 200, t)

conc_attempt ==
    /\ pc = "sending"
    /\ \E o \in ConcOutcomes : HttpAttemptStep(o, ConcBodies, SessionCookies)

InitConc ==
    /\ PROXY_SECRET = ConcSecret
    /\ IRRMS_KEYS = ConcKeys
    /\ pc = "idle"
    /\ req = Request("none", None, NoBody, NoBody)
    /\ loginStub = 200
    /\ calls = <<>>
    /\ retries = SessionRetry
    /\ result = NoResult
    /\ resp = NoResp
    /\ now = None
    /\ cookies = [h \in Hosts |-> None]
    /\ parked = IdleFrame

NextConc ==
    \/ conc_irrms_fetch
    \/ conc_attempt
    \/ irrms_return
    \/ next_request
    \/ context_switch

SpecConc == InitConc /\ [][NextConc]_vars

-----------------------------------------------------------------------------
(* One shed, the clock read around the ends of days, months and years. *)

clock_irrms_fetch ==
    /\ Ready
    /\ \E h \in ConcHeaders, t \in ClockEdges :
         IrrmsFetchStep(h, TATA, Missing, Missing, 200, t)

NextClock ==
    \/ clock_irrms_fetch
    \/ conc_attempt
    \/ irrms_return
    \/ next_request

SpecClock == InitConc /\ [][NextClock]_vars

-----------------------------------------------------------------------------
(* Claims *)

\* C1: on every endpoint, the debug test utilities included, a call that
\* carries no shared-secret header is answered 401 and no outbound call is
\* issued at any point of its handling.
C1_MissingSecretRejected ==
    (req.endpoint # "none" /\ req.x_proxy_secret = None)
        => /\ calls = <<>>
           /\ pc = "done"
           /\ resp.http = 401

\* C2: on every endpoint, a call whose shared-secret header is present but
\* differs from the configured proxy secret (the empty string and the
\* "Bearer <secret>" form included) is answered 403 and no outbound call is
\* issued.
C2_WrongSecretRejected ==
    (/\ req.endpoint # "none"
     /\ req.x_proxy_secret # None
     /\ req.x_proxy_secret # Some(PROXY_SECRET))
        => /\ calls = <<>>
           /\ pc = "done"
           /\ resp.http = 403

\* C3: an authenticated IRRMS fetch whose uppercased shed_name has no entry,
\* or an unset or empty entry, in the shed-to-key table, and whose
\* authenticateKey override is absent or empty, is answered 400 and issues
\* no outbound call.
C3_UnknownShedRejected ==
    (/\ req.endpoint = "irrms_fetch"
     /\ req.x_proxy_secret = Some(PROXY_SECRET)
     /\ req.raw.authenticateKey \in {Missing, Null, Val("")}
     /\ \A k \in DOMAIN IRRMS_KEYS :
           k = Upper(req.raw.shed_name) => IRRMS_KEYS[k] \in {None, Some("")})
        => /\ calls = <<>>
           /\ pc = "done"
           /\ resp.http = 400

\* C3 witness: a fetch for shed "tata" against a table whose TATA entry is
\* the empty string, sent with an empty override, has been refused with 400.
C3_Witness ==
    /\ pc = "done"
    /\ req.endpoint = "irrms_fetch"
    /\ req.x_proxy_secret = Some(PROXY_SECRET)
    /\ req.raw.shed_name = <<"t", "a", "t", "a">>
    /\ req.raw.authenticateKey = Val("")
    /\ IRRMS_KEYS[TATA] = Some("")
    /\ resp.http = 400
    /\ calls = <<>>

\* C4: an authenticated IRRMS fetch with a resolvable credential issues
\* exactly one login call, a POST to the IRRMS login endpoint, before any
\* data-fetch call; a data-fetch call is issued only after that login call
\* has returned status 200 within the same request.
C4_LoginBeforeData ==
    (req.endpoint = "irrms_fetch" /\ calls # <<>>)
        => /\ Cardinality({i \in DOMAIN calls :
                             calls[i].url = IRRMS_LOGIN_URL}) = 1
           /\ \A i \in DOMAIN calls :
                 calls[i].url = IRRMS_DATA_URL
                     => \E j \in 1..(i - 1) :
                           /\ calls[j].url = IRRMS_LOGIN_URL
                           /\ calls[j].method = POST
                           /\ calls[j].attempts # <<>>
                           /\ calls[j].attempts[Len(calls[j].attempts)].kind
                                 = "status"
                           /\ calls[j].attempts[Len(calls[j].attempts)].status
                                 = 200

\* C5: when the IRRMS login endpoint answers the login of an IRRMS fetch
\* with a status other than 200 (loginStub is that answer), no data-fetch
\* call is issued and the response carries the login status and the
\* "IRRMS login failed" marker with the truncated login body.
C5_LoginFailureShortCircuits ==
    (req.endpoint = "irrms_fetch" /\ loginStub # 200)
        => /\ \A i \in DOMAIN calls : calls[i].url # IRRMS_DATA_URL
           /\ (pc = "done" /\ resp.http \notin {400, 401, 403})
                 => /\ resp.http = loginStub
                    /\ DOMAIN resp.body = {"error", "body"}
                    /\ resp.body.error = "IRRMS login failed"

\* C6: the Authorization header of the IRRMS data-fetch call is the
\* authenticateKey override, unchanged, when the override is non-empty, and
\* otherwise the configured key of the uppercased shed_name, so that shed
\* names differing only in letter case resolve to the same key.
C6_AuthorizationHeader ==
    (/\ req.endpoint = "irrms_fetch"
     /\ req.x_proxy_secret = Some(PROXY_SECRET))
        => LET k == req.raw.authenticateKey
               u == Upper(req.raw.shed_name)
           IN /\ k \notin {Missing, Null, Val("")}
                   => /\ Len(calls) = 1
                      /\ calls[1].url = IRRMS_DATA_URL
                      /\ calls[1].headers.Authorization = k[2]
              /\ (/\ k \in {Missing, Null, Val("")}
                  /\ u \in DOMAIN IRRMS_KEYS
                  /\ IRRMS_KEYS[u] \notin {None, Some("")})
                   => /\ Len(calls) = 1
                      /\ calls[1].url = IRRMS_DATA_URL
                      /\ calls[1].headers.Authorization = IRRMS_KEYS[u][1]

\* C6 witness: a data-fetch call for shed "tata", with no override, carries
\* the key configured for TATA, and one with an override for the same shed
\* would carry the override.
C6_Witness ==
    /\ pc = "sending"
    /\ req.endpoint = "irrms_fetch"
    /\ req.raw.shed_name = <<"t", "a", "t", "a">>
    /\ req.raw.authenticateKey = Null
    /\ IRRMS_KEYS[TATA] = Some("key-TATA")
    /\ calls[1].headers.Authorization = "key-TATA"

\* C7: the page value in the outbound ARC GET URL of an authenticated ARC
\* fetch is at least 1: a missing, null, zero or negative page is sent as
\* page 1.
C7_PageAtLeastOne ==
    (req.endpoint = "arc_fetch" /\ calls # <<>>)
        => /\ calls[1].url \in {ARC_LIVE_URL \o "?page=" \o IntToStr(n) :
                                  n \in 1..MaxPage}
           /\ (req.raw.page \in {Missing, Null}
               \/ (req.raw.page[1] = "val" /\ req.raw.page[2] <= 0))
                 => calls[1].url = ARC_LIVE_URL \o "?page=1"

\* C8: an authenticated ARC fetch is single-phase: it issues one GET to the
\* ARC live-data URL with page=p when the caller supplies a page p >= 1 and
\* page=1 when no page is supplied, attaches no authentication header, and
\* issues no login call nor any other outbound call.
C8_ArcSinglePhase ==
    (/\ req.endpoint = "arc_fetch"
     /\ req.x_proxy_secret = Some(PROXY_SECRET))
        => /\ Len(calls) = 1
           /\ calls[1].method = GET
           /\ calls[1].via = "session"
           /\ "Authorization" \notin DOMAIN calls[1].headers
           /\ req.raw.page = Missing
                 => calls[1].url = ARC_LIVE_URL \o "?page=1"
           /\ req.raw.page = Val(3)
                 => calls[1].url
                      = "http://49.249.49.218:5000/api/DefTableLocodetails?page=3"
           /\ (req.raw.page[1] = "val" /\ req.raw.page[2] >= 1)
                 => calls[1].url
                      = ARC_LIVE_URL \o "?page=" \o IntToStr(req.raw.page[2])

\* C8 witness: an ARC fetch for page 3 has been answered after its single
\* GET to ...?page=3.
C8_Witness ==
    /\ pc = "done"
    /\ req.endpoint = "arc_fetch"
    /\ req.raw.page = Val(3)
    /\ Len(calls) = 1
    /\ calls[1].url = "http://49.249.49.218:5000/api/DefTableLocodetails?page=3"
    /\ resp.http = 200

\* C9 as stated: for a GET or POST made through the shared client, an
\* attempt is retried only when it returned 502, 503 or 504 or failed in
\* transport, at most 2 additional attempts are made, and answers 503, 503,
\* 200 make exactly 3 attempts whose final 200 response becomes the
\* caller's envelope.
C9_RetryOnlyOnRetrySet ==
    \A i \in DOMAIN calls :
       LET c == calls[i]
           a == c.attempts
           retried == IF pc = "sending" THEN DOMAIN a ELSE 1..(Len(a) - 1)
       IN (c.via = "session" /\ c.method \in {GET, POST})
            => /\ \A n \in retried :
                     \/ a[n].kind \in {"connect_error", "read_error"}
                     \/ a[n].status \in {502, 503, 504}
               /\ Len(a) <= 3
               /\ a \in {<<[kind |-> "status", status |-> 503,
                            retry_after |-> FALSE]>>,
                         <<[kind |-> "status", status |-> 503,
                            retry_after |-> FALSE],
                           [kind |-> "status", status |-> 503,
                            retry_after |-> FALSE]>>}
                     => pc = "sending"
               /\ (/\ Len(a) = 3
                   /\ a[1].kind = "status" /\ a[1].status = 503
                   /\ a[2].kind = "status" /\ a[2].status = 503
                   /\ a[3].kind = "status" /\ a[3].status = 200
                   /\ pc = "done"
                   /\ req.endpoint \in {"irrms_fetch", "arc_fetch"})
                     => /\ resp.http = 200
                        /\ resp.body.status_code = 200
                        /\ result.kind = "response"
                        /\ result.body.isJson
                              => resp.body.json.parsed = result.body.id
                        /\ ~result.body.isJson
                              => resp.body.text.id = result.body.id

\* C9 as amended: for a GET or POST made through the shared client, an
\* attempt is retried only when it returned 502, 503 or 504, returned 413,
\* 429 or 503 with a Retry-After header, or failed in transport; at most 2
\* additional attempts are made; answers 503, 503, 200 make exactly 3
\* attempts whose final 200 response becomes the caller's envelope.
C9_RetryPolicy ==
    \A i \in DOMAIN calls :
       LET c == calls[i]
           a == c.attempts
           retried == IF pc = "sending" THEN DOMAIN a ELSE 1..(Len(a) - 1)
       IN (c.via = "session" /\ c.method \in {GET, POST})
            => /\ \A n \in retried :
                     \/ a[n].kind \in {"connect_error", "read_error"}
                     \/ a[n].status \in {502, 503, 504}
                     \/ a[n].status \in {413, 429, 503} /\ a[n].retry_after
               /\ Len(a) <= 3
               /\ a \in {<<[kind |-> "status", status |-> 503,
                            retry_after |-> FALSE]>>,
                         <<[kind |-> "status", status |-> 503,
                            retry_after |-> FALSE],
                           [kind |-> "status", status |-> 503,
                            retry_after |-> FALSE]>>}
                     => pc = "sending"
               /\ (/\ Len(a) = 3
                   /\ a[1].kind = "status" /\ a[1].status = 503
                   /\ a[2].kind = "status" /\ a[2].status = 503
                   /\ a[3].kind = "status" /\ a[3].status = 200
                   /\ pc = "done"
                   /\ req.endpoint \in {"irrms_fetch", "arc_fetch"})
                     => /\ resp.http = 200
                        /\ resp.body.status_code = 200
                        /\ result.kind = "response"
                        /\ result.body.isJson
                              => resp.body.json.parsed = result.body.id
                        /\ ~result.body.isJson
                              => resp.body.text.id = result.body.id

\* C9 witness: an IRRMS fetch whose data call met 503, 503 and then 200 has
\* answered with the envelope of the 200 response after three attempts.
C9_Witness ==
    /\ pc = "done"
    /\ req.endpoint = "irrms_fetch"
    /\ Len(calls) = 1
    /\ Len(calls[1].attempts) = 3
    /\ calls[1].attempts[1].kind = "status"
    /\ calls[1].attempts[1].status = 503
    /\ calls[1].attempts[2].kind = "status"
    /\ calls[1].attempts[2].status = 503
    /\ calls[1].attempts[3].kind = "status"
    /\ calls[1].attempts[3].status = 200
    /\ resp.http = 200
    /\ resp.body.status_code = 200

\* C10: when the attempts of an outbound call of IRRMS fetch, ARC fetch or
\* the passthrough check are exhausted, by a retry-set status on all three
\* attempts or by repeated transport failure, the proxy answers with a
\* server error (500 or 502) that carries the underlying cause, never with
\* a success envelope.
C10_ExhaustionSurfaced ==
    (/\ pc = "done"
     /\ req.endpoint \in {"irrms_fetch", "arc_fetch", "debug_check"}
     /\ calls # <<>>
     /\ Len(calls[1].attempts) = 3
     /\ \A n \in 1..3 :
           \/ calls[1].attempts[n].kind \in {"connect_error", "read_error"}
           \/ /\ calls[1].method \in {GET, POST}
              /\ calls[1].attempts[n].status \in {502, 503, 504})
        => /\ resp.http \in {500, 502}
           /\ DOMAIN resp.body = {"detail"}
           /\ \E cause \in {"ConnectionError", "RetryError", "ReadTimeout"} :
                 resp.body.detail
                    \in {"IRRMS request failed: " \o cause,
                         "ARC request failed: " \o cause,
                         "Proxy failed: " \o cause}

\* C10 witness: an ARC fetch whose GET met 503 on all three attempts has
\* been answered 500.
C10_Witness ==
    /\ pc = "done"
    /\ req.endpoint = "arc_fetch"
    /\ Len(calls) = 1
    /\ Len(calls[1].attempts) = 3
    /\ \A n \in 1..3 : /\ calls[1].attempts[n].kind = "status"
                       /\ calls[1].attempts[n].status = 503
    /\ resp.http = 500
    /\ resp.body.detail = "ARC request failed: RetryError"

\* C11 as stated: when the upstream answers an attempt of the data call of
\* IRRMS fetch or ARC fetch with a status outside {502, 503, 504}, the call
\* is not attempted again, no error is raised, and the caller receives an
\* ordinary envelope whose status_code is that status.
C11_OtherStatusOnce ==
    (req.endpoint \in {"irrms_fetch", "arc_fetch"} /\ calls # <<>>)
        => LET a == calls[1].attempts
           IN \A n \in DOMAIN a :
                 (a[n].kind = "status" /\ a[n].status \notin {502, 503, 504})
                   => /\ n = Len(a)
                      /\ pc # "sending"
                      /\ result.kind = "response"
                      /\ result.status_code = a[n].status
                      /\ pc = "done"
                            => /\ resp.http = 200
                               /\ resp.body.status_code = a[n].status

\* C11 as amended: when the upstream answers an attempt of the data call of
\* IRRMS fetch or ARC fetch with a status outside {502, 503, 504} that is
\* not a 413 or 429 carrying a Retry-After header, the call is not attempted
\* again, no error is raised, and the caller receives an ordinary envelope
\* whose status_code is that status.
C11_OtherStatusFinal ==
    (req.endpoint \in {"irrms_fetch", "arc_fetch"} /\ calls # <<>>)
        => LET a == calls[1].attempts
           IN \A n \in DOMAIN a :
                 (/\ a[n].kind = "status"
                  /\ a[n].status \notin {502, 503, 504}
                  /\ ~(a[n].status \in {413, 429} /\ a[n].retry_after))
                   => /\ n = Len(a)
                      /\ pc # "sending"
                      /\ result.kind = "response"
                      /\ result.status_code = a[n].status
                      /\ pc = "done"
                            => /\ resp.http = 200
                               /\ resp.body.status_code = a[n].status

\* C11 witness: an ARC fetch whose GET was answered 404 at once has returned
\* an envelope with status_code 404 after that single attempt.
C11_Witness ==
    /\ pc = "done"
    /\ req.endpoint = "arc_fetch"
    /\ Len(calls) = 1
    /\ Len(calls[1].attempts) = 1
    /\ calls[1].attempts[1].kind = "status"
    /\ calls[1].attempts[1].status = 404
    /\ resp.http = 200
    /\ resp.body.status_code = 404

\* C12: every envelope that IRRMS fetch or ARC fetch returns for a received
\* upstream response has status_code equal to the upstream status and
\* exactly one of json and text: json, the parsed body, exactly when the
\* body parses as JSON, and text otherwise; building it never fails.
C12_EnvelopeShape ==
    (/\ pc = "done"
     /\ req.endpoint \in {"irrms_fetch", "arc_fetch"}
     /\ result.kind = "response")
        => /\ resp.http = 200
           /\ "status_code" \in DOMAIN resp.body
           /\ resp.body.status_code = result.status_code
           /\ ("json" \in DOMAIN resp.body) # ("text" \in DOMAIN resp.body)
           /\ ("json" \in DOMAIN resp.body) = result.body.isJson
           /\ result.body.isJson => resp.body.json.parsed = result.body.id
           /\ ~result.body.isJson => resp.body.text.id = result.body.id

\* C12 witness: an IRRMS fetch answered 404 with a body that is not JSON has
\* returned an envelope with text and without json.
C12_Witness ==
    /\ pc = "done"
    /\ req.endpoint = "irrms_fetch"
    /\ result.kind = "response"
    /\ result.status_code = 404
    /\ ~result.body.isJson
    /\ DOMAIN resp.body = {"status_code", "text"}

\* C13: for an upstream body of n characters that is not JSON, the text of
\* a data-fetch envelope is the first min(n, 2000) characters of the body
\* and the snippet of the passthrough check is the first min(n, 800)
\* characters; a body shorter than the cap is returned whole.
C13_Truncation ==
    (pc = "done" /\ result.kind = "response" /\ ~result.body.isJson)
        => /\ req.endpoint \in {"irrms_fetch", "arc_fetch"}
                 => resp.body.text
                      = [id |-> result.body.id,
                         len |-> IF result.body.len <= 2000
                                 THEN result.body.len ELSE 2000]
           /\ req.endpoint = "debug_check"
                 => resp.body.snippet
                      = [id |-> result.body.id,
                         len |-> IF result.body.len <= 800
                                 THEN result.body.len ELSE 800]

\* C13 witness: a passthrough check whose upstream body has 1200 characters,
\* under the data-fetch cap and over the snippet cap, has returned a snippet
\* of 800 characters.
C13_Witness ==
    /\ pc = "done"
    /\ req.endpoint = "debug_check"
    /\ result.kind = "response"
    /\ ~result.body.isJson
    /\ result.body.len = 1200
    /\ resp.body.snippet.len = 800

\* C14: end to end, a request with the valid secret for a shed whose key is
\* configured, with a login endpoint that answers 200 and a data-fetch call
\* that returns status s with a JSON body b, is answered exactly
\* {status_code: s, json: b}; for s = 200 and b = {"locos":[]} that is
\* {"status_code": 200, "json": {"locos": []}}.
C14_EndToEnd ==
    (/\ pc = "done"
     /\ req.endpoint = "irrms_fetch"
     /\ req.x_proxy_secret = Some(PROXY_SECRET)
     /\ req.raw.authenticateKey \in {Missing, Null, Val("")}
     /\ loginStub = 200
     /\ result.kind = "response"
     /\ result.body.isJson)
        => /\ resp = [http |-> 200,
                      body |-> [status_code |-> result.status_code,
                                json |-> [parsed |-> result.body.id,
                                          ip |-> result.body.ip]]]
           /\ (result.status_code = 200 /\ result.body.id = "{\"locos\":[]}")
                 => resp.body = [status_code |-> 200,
                                 json |-> [parsed |-> "{\"locos\":[]}",
                                           ip |-> None]]

\* C14 witness: the scenario of the claim, shed TATA with the TATA key
\* configured, has been answered {"status_code": 200, "json": {"locos": []}}.
C14_Witness ==
    /\ pc = "done"
    /\ req.endpoint = "irrms_fetch"
    /\ req.raw.shed_name = TATA
    /\ req.raw.authenticateKey = Missing
    /\ IRRMS_KEYS[TATA] = Some("key-TATA")
    /\ loginStub = 200
    /\ result.kind = "response"
    /\ result.status_code = 200
    /\ resp.body = [status_code |-> 200,
                    json |-> [parsed |-> "{\"locos\":[]}", ip |-> None]]

C16_Issued(f) ==
    [i \in 1..Len(f.calls) |-> [f.calls[i] EXCEPT !.attempts = <<>>]]

\* C16: requests handled at the same time are independent.  Two requests
\* in flight with the same inputs issue the same outbound calls and, given
\* the same upstream answer, send the same response; every outbound call of
\* either is attempted at most 3 times; the configuration stays what it was
\* at start.
C16_Independent ==
    /\ \A f \in {Running, parked} : \A g \in {Running, parked} :
         /\ \A i \in 1..Len(f.calls) : Len(f.calls[i].attempts) <= 3
         /\ (f.req = g.req /\ f.pc # "idle" /\ g.pc # "idle")
               => C16_Issued(f) = C16_Issued(g)
         /\ (f.req = g.req /\ f.pc = "done" /\ g.pc = "done"
                /\ f.result = g.result)
               => f.resp = g.resp
    /\ PROXY_SECRET = ConcSecret
    /\ IRRMS_KEYS = ConcKeys

C17_Digits == {Digit(d) : d \in 0..9}

C17_Value(c) == CHOOSE d \in 0..9 : Digit(d) = c

\* the number written by the characters i .. j of s
C17_Number(s, i, j) ==
    LET RECURSIVE upto(_)
        upto(k) == IF k < i THEN 0 ELSE 10 * upto(k - 1) + C17_Value(s[k])
    IN upto(j)

\* s reads DD-MM-YYYY
C17_IsDate(s) ==
    /\ Len(s) = 10
    /\ s[3] = "-" /\ s[6] = "-"
    /\ \A i \in {1, 2, 4, 5, 7, 8, 9, 10} : s[i] \in C17_Digits

\* s reads DD-MM-YYYY HH:MM:SS
C17_IsStamp(s) ==
    /\ Len(s) = 19
    /\ C17_IsDate(SubSeq(s, 1, 10))
    /\ s[11] = " " /\ s[14] = ":" /\ s[17] = ":"
    /\ \A i \in {12, 13, 15, 16, 18, 19} : s[i] \in C17_Digits

C17_Date(s) ==
    [year |-> C17_Number(s, 7, 10), month |-> C17_Number(s, 4, 5),
     day |-> C17_Number(s, 1, 2)]

C17_Stamp(s) ==
    [year |-> C17_Number(s, 7, 10), month |-> C17_Number(s, 4, 5),
     day |-> C17_Number(s, 1, 2), hour |-> C17_Number(s, 12, 13),
     minute |-> C17_Number(s, 15, 16), second |-> C17_Number(s, 18, 19)]

\* the calendar day after d
C17_Tomorrow(d) ==
    LET last == IF d.month \in {4, 6, 9, 11} THEN 30
                ELSE IF d.month # 2 THEN 31
                ELSE IF d.year % 400 = 0 THEN 29
                ELSE IF d.year % 100 = 0 THEN 28
                ELSE IF d.year % 4 = 0 THEN 29 ELSE 28
    IN IF d.day < last
       THEN [year |-> d.year, month |-> d.month, day |-> d.day + 1]
       ELSE IF d.month < 12
       THEN [year |-> d.year, month |-> d.month + 1, day |-> 1]
       ELSE [year |-> d.year + 1, month |-> 1, day |-> 1]

\* the instant `minutes` (less than a day) after t
C17_Later(t, minutes) ==
    LET m == t.hour * 60 + t.minute + minutes
        d == [year |-> t.year, month |-> t.month, day |-> t.day]
        e == IF m < 1440 THEN d ELSE C17_Tomorrow(d)
        r == IF m < 1440 THEN m ELSE m - 1440
    IN [year |-> e.year, month |-> e.month, day |-> e.day,
        hour |-> r \div 60, minute |-> r % 60, second |-> t.second]

\* C17: the payload of the IRRMS data fetch carries a window anchored on
\* one reading `now` of the clock: fromDateTime is now - 15 minutes and
\* toDateTime is now + 5 minutes, 20 minutes apart, both written
\* DD-MM-YYYY HH:MM:SS; startDate is the date of now and endDate the date
\* of the day after, both written DD-MM-YYYY; also across the end of a
\* day, a month or a year.
C17_TimeWindow ==
    (req.endpoint = "irrms_fetch" /\ calls # <<>>) =>
        LET p == calls[1].payload
        IN /\ now # None
           /\ C17_IsStamp(p.fromDateTime) /\ C17_IsStamp(p.toDateTime)
           /\ C17_IsDate(p.startDate) /\ C17_IsDate(p.endDate)
           /\ LET from == C17_Stamp(p.fromDateTime)
                  to == C17_Stamp(p.toDateTime)
                  today == [year |-> now[1].year, month |-> now[1].month,
                            day |-> now[1].day]
              IN /\ C17_Later(from, 15) = now[1]
                 /\ C17_Later(now[1], 5) = to
                 /\ C17_Later(from, 20) = to
                 /\ C17_Date(p.startDate) = today
                 /\ C17_Date(p.endDate) = C17_Tomorrow(today)

\* a fetch is sent whose window begins in one year and ends in the next
C17_Witness ==
    /\ pc = "sending"
    /\ req.endpoint = "irrms_fetch"
    /\ calls # <<>>
    /\ C17_Stamp(calls[1].payload.toDateTime).year
         = C17_Stamp(calls[1].payload.fromDateTime).year + 1

\* C18: an identity check that passes authentication issues one outbound
\* call, the GET of the public-IP service, and always answers 200 with the
\* local hostname; when the lookup fails (the client raises after a failed
\* connection, a timeout or exhausted retries, or the body is not JSON) the
\* public_ip of the answer is null.
C18_LookupFailureIsNull ==
    (pc = "done" /\ req.endpoint = "debug_ip"
       /\ req.x_proxy_secret = Some(PROXY_SECRET)) =>
        /\ Len(calls) = 1
        /\ calls[1].url = "https://api.ipify.org?format=json"
        /\ calls[1].method = <<"G", "E", "T">>
        /\ resp.http = 200
        /\ DOMAIN resp.body = {"hostname", "public_ip"}
        /\ resp.body.hostname = HOSTNAME
        /\ (result.kind = "exception" \/ ~result.body.isJson)
              => resp.body.public_ip = <<>>

\* the lookup ran out of retries on 503 and the check answered all the same
C18_Witness ==
    /\ pc = "done"
    /\ req.endpoint = "debug_ip"
    /\ Len(calls) = 1
    /\ Len(calls[1].attempts) = 3
    /\ result.kind = "exception"
    /\ resp.http = 200
    /\ resp.body.public_ip = <<>>

\* C19: an IRRMS fetch without the secret header, or with a header that is
\* not the secret, for a shed that has no usable entry in the table and
\* without an override, is answered 401, respectively 403, with the
\* message of the authentication check and without an outbound call; it is
\* never answered 400.
C19_AuthBeforeShed ==
    (/\ req.endpoint = "irrms_fetch"
     /\ req.x_proxy_secret # Some(PROXY_SECRET)
     /\ req.raw.authenticateKey \in {Missing, Null, Val("")}
     /\ \A k \in DOMAIN IRRMS_KEYS :
           k = Upper(req.raw.shed_name) => IRRMS_KEYS[k] \in {None, Some("")})
        => /\ pc = "done"
           /\ calls = <<>>
           /\ resp.http # 400
           /\ resp = IF req.x_proxy_secret = <<>>
                     THEN [http |-> 401,
                           body |-> [detail |-> "Missing X-Proxy-Secret"]]
                     ELSE [http |-> 403,
                           body |-> [detail |-> "Invalid X-Proxy-Secret"]]

\* a fetch for the unknown shed "XX" came without a header and got 401, and
\* one with a wrong header got 403
C19_Witness ==
    /\ pc = "done"
    /\ req.endpoint = "irrms_fetch"
    /\ req.raw.shed_name = <<"X", "X">>
    /\ req.raw.authenticateKey = Missing
    /\ \/ req.x_proxy_secret = <<>> /\ resp.http = 401
       \/ req.x_proxy_secret = <<"Bearer s3cret">> /\ resp.http = 403

\* C20: every request that is being handled completes, with one outcome:
\* a 200 response, or one error response of 401, 403, 400, 500 or 502 that
\* carries a detail and nothing else.  No response exists before the
\* request completes and the response of a completed request is not
\* replaced; a request issues at most one outbound call, attempted at most
\* 3 times; a request whose call is under way or has returned is
\* eventually completed.
C20_Completes ==
    /\ [](/\ Len(calls) <= 1
          /\ \A i \in 1..Len(calls) : Len(calls[i].attempts) <= 3
          /\ pc # "done" => resp = [http |-> 0, body |-> <<>>]
          /\ pc = "done" =>
                \/ resp.http = 200 /\ "detail" \notin DOMAIN resp.body
                \/ /\ resp.http \in {401, 403, 400, 500, 502}
                   /\ DOMAIN resp.body = {"detail"})
    /\ [][pc = "done" => (resp' = resp \/ pc' = "idle")]_vars
    /\ (pc \in {"sending", "returned"}) ~> (pc = "done")

\* a request completed with an error after three attempts of its call, and
\* another completed with a 200 after a retried attempt
C20_Witness ==
    /\ pc = "done"
    /\ Len(calls) = 1
    /\ \/ Len(calls[1].attempts) = 3 /\ resp.http = 500
       \/ Len(calls[1].attempts) = 2 /\ resp.http = 200

====
